---------------------------- MODULE Spec2Model ----------------------------
(* A model of z10.py: the page-range parser, the three extraction engines, *)
(* the cell cleaner, the unique-filename probe and run_extraction, started *)
(* on worker threads by the UI's start_extraction.                         *)
(*                                                                         *)
(* A Python str is a sequence of one-character strings.  A DataFrame is a  *)
(* sequence of rows, a row a sequence of cells, a cell a record            *)
(* [isStr, v]: a text cell carries its characters in v, any other cell     *)
(* (NaN, a number) has isStr = FALSE.                                      *)
EXTENDS Integers, Sequences, FiniteSets, TLC

\* ------------------------------------------------------------ bounds
MaxRuns == 2
MaxPre == 2
MaxSpecLen == 3
MaxPages == 3
MaxCellLen == 4
MaxTextLen == 3

\* ------------------------------------------------------- str helpers
TAB == "\t"
NL == "\n"

Digits == {"0", "1", "2", "3", "4", "5", "6", "7", "8", "9"}

\* str.isspace for the characters of the model
IsSpace(c) == c \in {" ", TAB, NL}

DigitVal(c) ==
  CASE c = "0" -> 0 [] c = "1" -> 1 [] c = "2" -> 2 [] c = "3" -> 3
    [] c = "4" -> 4 [] c = "5" -> 5 [] c = "6" -> 6 [] c = "7" -> 7
    [] c = "8" -> 8 [] c = "9" -> 9

\* all sequences over S of length <= n
StrUpTo(S, n) == UNION {[1..k -> S] : k \in 0..n}

RECURSIVE LStrip(_, _)
LStrip(s, cs) ==
  IF s # <<>> /\ Head(s) \in cs THEN LStrip(Tail(s), cs) ELSE s

RECURSIVE RStrip(_, _)
RStrip(s, cs) ==
  IF s # <<>> /\ s[Len(s)] \in cs THEN RStrip(SubSeq(s, 1, Len(s) - 1), cs) ELSE s

\* str.strip(chars)
StripChars(s, cs) == RStrip(LStrip(s, cs), cs)

\* str.strip(): whitespace off both ends
Strip(s) == StripChars(s, {" ", TAB, NL})

\* str.replace(c, '')
RECURSIVE Remove(_, _)
Remove(s, c) ==
  IF s = <<>> THEN <<>>
  ELSE IF Head(s) = c THEN Remove(Tail(s), c)
  ELSE <<Head(s)>> \o Remove(Tail(s), c)

\* str.split(sep) for a one-character sep: always at least one part
RECURSIVE SplitFrom(_, _, _)
SplitFrom(s, sep, cur) ==
  IF s = <<>> THEN <<cur>>
  ELSE IF Head(s) = sep THEN <<cur>> \o SplitFrom(Tail(s), sep, <<>>)
  ELSE SplitFrom(Tail(s), sep, Append(cur, Head(s)))

Split(s, sep) == SplitFrom(s, sep, <<>>)

LowerChar(c) == CASE c = "A" -> "a" [] c = "L" -> "l" [] OTHER -> c

\* str.lower()
Lower(s) == [i \in 1..Len(s) |-> LowerChar(s[i])]

\* int(s) accepts s when, stripped of whitespace, it is a run of digits
IntOk(s) ==
  LET t == Strip(s) IN t # <<>> /\ \A i \in 1..Len(t) : t[i] \in Digits

RECURSIVE DecVal(_)
DecVal(t) ==
  IF t = <<>> THEN 0
  ELSE 10 * DecVal(SubSeq(t, 1, Len(t) - 1)) + DigitVal(t[Len(t)])

IntVal(s) == DecVal(Strip(s))

\* list(range(a, b))
Range(a, b) == IF b > a THEN [i \in 1..(b - a) |-> a + i - 1] ELSE <<>>

RECURSIVE Flatten(_)
Flatten(ss) == IF ss = <<>> THEN <<>> ELSE Head(ss) \o Flatten(Tail(ss))

RECURSIVE Filter(_, _)
Filter(s, bound) ==
  IF s = <<>> THEN <<>>
  ELSE IF Head(s) < bound THEN <<Head(s)>> \o Filter(Tail(s), bound)
  ELSE Filter(Tail(s), bound)

Elems(s) == {s[i] : i \in 1..Len(s)}

\* decimal str(n) for n >= 0
RECURSIVE Str(_)
Str(n) ==
  LET d == <<"0", "1", "2", "3", "4", "5", "6", "7", "8", "9">>[(n % 10) + 1]
  IN IF n < 10 THEN <<d>> ELSE Append(Str(n \div 10), d)

\* ','.join(parts)
RECURSIVE Join(_)
Join(parts) ==
  IF parts = <<>> THEN <<>>
  ELSE IF Len(parts) = 1 THEN Head(parts)
  ELSE Head(parts) \o <<",">> \o Join(Tail(parts))

ALL == <<"a", "l", "l">>

\* ------------------------------------------------ parse_page_numbers
\* the hard-coded page limit extract_tables_camelot passes
CamelotMaxPages == 1000

\* whether the loop body raises no ValueError on this part
PartOk(part) ==
  IF "-" \in Elems(part)
  THEN LET ps == Split(part, "-")
       IN Len(ps) = 2 /\ IntOk(ps[1]) /\ IntOk(ps[2])
  ELSE IntOk(part)

\* mutant of PartPages: the pair's end taken as exclusive, range(start - 1, end - 1)
PartPagesExclusiveEnd(part) ==
  IF "-" \in Elems(part)
  THEN LET ps == Split(part, "-")
       IN Range(IntVal(ps[1]) - 1, IntVal(ps[2]) - 1)
  ELSE <<IntVal(part) - 1>>

\* what the loop body adds to page_nums for this part
PartPages(part) ==
  IF "-" \in Elems(part)
  THEN LET ps == Split(part, "-")
       IN Range(IntVal(ps[1]) - 1, IntVal(ps[2]))
  ELSE <<IntVal(part) - 1>>

\* mutant of parse_page_numbers: a part that does not parse is skipped
\* (try/except around the loop body) instead of raising
parse_page_numbers_lenient(spec, max_pages) ==
  LET parts == Split(spec, ",")
  IN [ok |-> TRUE,
      val |-> Filter(Flatten([i \in 1..Len(parts) |->
                                IF PartOk(parts[i]) THEN PartPages(parts[i]) ELSE <<>>]),
                     max_pages)]

\* [ok |-> FALSE] is the ValueError that int() or the unpacking raises
parse_page_numbers(spec, max_pages) ==
  LET parts == Split(spec, ",")
  IN IF \A i \in 1..Len(parts) : PartOk(parts[i])
     THEN [ok |-> TRUE,
           val |-> Filter(Flatten([i \in 1..Len(parts) |-> PartPages(parts[i])]),
                          max_pages)]
     ELSE [ok |-> FALSE, val |-> <<>>]

\* -------------------------------------------------------- clean_cell
Txt(s) == [isStr |-> TRUE, v |-> s]
NaN == [isStr |-> FALSE, v |-> <<>>]
Num == [isStr |-> FALSE, v |-> <<"7">>]
IsNaN(c) == ~c.isStr /\ c.v = <<>>

\* re.match(r'^\(\s*[\d,.]+\s*\)$', s) for an s that str.strip() returned
MatchesParenNumber(s) ==
  /\ Len(s) >= 3
  /\ s[1] = "("
  /\ s[Len(s)] = ")"
  /\ LET core == Strip(SubSeq(s, 2, Len(s) - 1))
     IN core # <<>> /\ \A i \in 1..Len(core) : core[i] \in Digits \cup {",", "."}

clean_cell(cell) ==
  IF cell.isStr
  THEN LET c == Strip(Remove(cell.v, "$"))
       IN IF MatchesParenNumber(c)
          THEN Txt(<<"-">> \o Remove(StripChars(c, {"(", ")", " "}), ","))
          ELSE Txt(c)
  ELSE cell

\* DataFrame.map(clean_cell)
clean_dataframe(df) ==
  [r \in 1..Len(df) |-> [k \in 1..Len(df[r]) |-> clean_cell(df[r][k])]]

\* DataFrame.empty: an axis of length 0
Empty(df) == Len(df) = 0 \/ Len(df[1]) = 0

RECURSIVE NonEmptyOf(_)
NonEmptyOf(tables) ==
  IF tables = <<>> THEN <<>>
  ELSE IF Empty(Head(tables)) THEN NonEmptyOf(Tail(tables))
  ELSE <<Head(tables)>> \o NonEmptyOf(Tail(tables))

\* df.dropna(how='all'): rows whose cells are all NaN are dropped
RECURSIVE DropNaRows(_)
DropNaRows(df) ==
  IF df = <<>> THEN <<>>
  ELSE IF \A k \in 1..Len(Head(df)) : IsNaN(Head(df)[k])
       THEN DropNaRows(Tail(df))
       ELSE <<Head(df)>> \o DropNaRows(Tail(df))

\* pd.concat(dfs, ignore_index=True) if dfs else pd.DataFrame()
Concat(dfs) == Flatten(dfs)

\* ------------------------------------------------------------- state
Threads == 1..MaxRuns

VARIABLES
  pages,        \* pages_var: the page spec typed into the form
  doc,          \* the selected PDF: its pages' text and what camelot and
                \* tabula return for it with this page spec
  files,        \* output directory: index k |-> workbook; 0 is X.xlsx, k is X_k.xlsx
  clicks,       \* presses of "Upload Financial Statement" still to come
  pc,           \* where each extraction_thread stands in run_extraction
  camelot_df,
  plumber_df,
  tabula_df,
  output_file,  \* ensure_unique_filename's filepath, as an index
  counter,
  error,        \* the exception that ended the thread, or "none"
  invoked,      \* history: backend calls made, in order
  resolved,     \* history: the index lists parse_page_numbers returned to each engine
  returned,     \* history: the DataFrame each engine function returned
  seen,         \* history: the files that existed when the probe began
  replaced      \* history: writer of the file the workbook write replaced, -1 if none

vars ==
  <<pages, doc, files, clicks, pc, camelot_df, plumber_df, tabula_df,
    output_file, counter, error, invoked, resolved, returned, seen, replaced>>

pageCount == Len(doc.texts)

NoFrames == [camelot |-> <<>>, plumber |-> <<>>, tabula |-> <<>>]

\* lines 99-102: the name derives from the metadata and the source file only,
\* so every run of this form and file has the same candidate, index 0
Candidate == 0

\* ------------------------------------------------------------ engines
\* line 152-173: the button's handler starts one worker thread
start_extraction(t) ==
  /\ clicks > 0
  /\ pc[t] = "idle"
  /\ \A u \in Threads : u < t => pc[u] # "idle"
  /\ clicks' = clicks - 1
  /\ pc' = [pc EXCEPT ![t] = "camelot"]
  /\ UNCHANGED <<pages, doc, files, camelot_df, plumber_df, tabula_df,
                 output_file, counter, error, invoked, resolved, returned,
                 seen, replaced>>

\* mutant of Raise: the exception is caught and recorded, and the run goes on
\* to compose its output
RaiseSwallowed(t, e) ==
  /\ pc' = [pc EXCEPT ![t] = "probe"]
  /\ error' = [error EXCEPT ![t] = e]

\* an exception leaves run_extraction: the thread ends there
Raise(t, e) ==
  /\ pc' = [pc EXCEPT ![t] = "failed"]
  /\ error' = [error EXCEPT ![t] = e]

\* line 56: the pages argument handed to camelot.read_pdf
CamelotArg(idx) == Join([i \in 1..Len(idx) |-> Str(idx[i] + 1)])

\* lines 55-59, and clean_dataframe of line 95.  parse_page_numbers runs
\* before camelot.read_pdf: a ValueError ends the thread with no backend call
extract_tables_camelot(t) ==
  /\ pc[t] = "camelot"
  /\ LET isAll == Lower(pages) = ALL
         r == parse_page_numbers(pages, CamelotMaxPages)
         parsed == isAll \/ r.ok
         arg == IF isAll THEN pages ELSE CamelotArg(r.val)
         call == [backend |-> "camelot", pages |-> arg]
         df == Concat(NonEmptyOf(doc.camelot))
     IN \/ /\ Raise(t, IF parsed THEN "ExtractionError" ELSE "ParseError")
           /\ invoked' = [invoked EXCEPT ![t] = IF parsed THEN Append(@, call) ELSE @]
           /\ resolved' = [resolved EXCEPT ![t].camelot = IF parsed /\ ~isAll THEN r.val ELSE @]
           /\ UNCHANGED <<camelot_df, returned>>
        \/ /\ parsed
           /\ invoked' = [invoked EXCEPT ![t] = Append(@, call)]
           /\ resolved' = [resolved EXCEPT ![t].camelot = IF isAll THEN @ ELSE r.val]
           /\ returned' = [returned EXCEPT ![t].camelot = df]
           /\ camelot_df' = [camelot_df EXCEPT ![t] = clean_dataframe(df)]
           /\ pc' = [pc EXCEPT ![t] = "plumber"]
           /\ UNCHANGED error
  /\ UNCHANGED <<pages, doc, files, clicks, plumber_df, tabula_df, output_file,
                 counter, seen, replaced>>

\* pdf.pages[i] for a Python list of n pages: the 0-based page it yields
\* (i < n always holds here: parse_page_numbers filtered on it)
PageAt(i, n) == IF i >= 0 THEN i ELSE n + i

\* lines 47-51: the lines of the selected pages that have text
RECURSIVE AllText(_, _)
AllText(texts, selected) ==
  IF selected = <<>> THEN <<>>
  ELSE LET text == texts[Head(selected) + 1]
       IN (IF text # <<>> THEN Split(text, NL) ELSE <<>>)
            \o AllText(texts, Tail(selected))

\* line 52: pd.DataFrame({"Extracted Text": all_text})
TextFrame(all_text) == [i \in 1..Len(all_text) |-> <<Txt(all_text[i])>>]

\* lines 44-52, and clean_dataframe of line 96.  pdfplumber.open or
\* extract_text may raise; so does int() in parse_page_numbers, and
\* pdf.pages[i] for an i below -len(pdf.pages)
extract_tables_pdfplumber(t) ==
  /\ pc[t] = "plumber"
  /\ LET isAll == Lower(pages) = ALL
         n == pageCount
         r == parse_page_numbers(pages, n)
         parsed == isAll \/ r.ok
         idx == IF isAll THEN Range(0, n) ELSE r.val
         inRange == \A i \in 1..Len(idx) : -n <= idx[i]
         selected == [i \in 1..Len(idx) |-> PageAt(idx[i], n)]
         df == TextFrame(AllText(doc.texts, selected))
         call == [backend |-> "pdfplumber", pages |-> <<>>]
         errors == {"ExtractionError"}
                     \cup (IF ~parsed THEN {"ParseError"}
                           ELSE IF ~inRange THEN {"IndexError"} ELSE {})
     IN \/ /\ \E e \in errors :
                /\ Raise(t, e)
                /\ resolved' = [resolved EXCEPT ![t].plumber =
                                  IF e = "IndexError" THEN r.val ELSE @]
           /\ invoked' = [invoked EXCEPT ![t] = Append(@, call)]
           /\ UNCHANGED <<plumber_df, returned>>
        \/ /\ parsed /\ inRange
           /\ invoked' = [invoked EXCEPT ![t] = Append(@, call)]
           /\ resolved' = [resolved EXCEPT ![t].plumber = IF isAll THEN @ ELSE r.val]
           /\ returned' = [returned EXCEPT ![t].plumber = df]
           /\ plumber_df' = [plumber_df EXCEPT ![t] = clean_dataframe(df)]
           /\ pc' = [pc EXCEPT ![t] = "tabula"]
           /\ UNCHANGED error
  /\ UNCHANGED <<pages, doc, files, clicks, camelot_df, tabula_df, output_file,
                 counter, seen, replaced>>

\* lines 38-41, clean_dataframe of line 97, and lines 99-103 up to the call
\* of ensure_unique_filename, whose lines 74-75 set filepath and counter
extract_tables_tabula(t) ==
  /\ pc[t] = "tabula"
  /\ LET tables == NonEmptyOf(doc.tabula)
         df == Concat([i \in 1..Len(tables) |-> DropNaRows(tables[i])])
         call == [backend |-> "tabula", pages |-> pages]
     IN \/ /\ Raise(t, "ExtractionError")
           /\ invoked' = [invoked EXCEPT ![t] = Append(@, call)]
           /\ UNCHANGED <<tabula_df, returned, output_file, counter, seen>>
        \/ /\ invoked' = [invoked EXCEPT ![t] = Append(@, call)]
           /\ returned' = [returned EXCEPT ![t].tabula = df]
           /\ tabula_df' = [tabula_df EXCEPT ![t] = clean_dataframe(df)]
           /\ output_file' = [output_file EXCEPT ![t] = Candidate]
           /\ counter' = [counter EXCEPT ![t] = 1]
           /\ seen' = [seen EXCEPT ![t] = DOMAIN files]
           /\ pc' = [pc EXCEPT ![t] = "probe"]
           /\ UNCHANGED error
  /\ UNCHANGED <<pages, doc, files, clicks, camelot_df, plumber_df, resolved,
                 replaced>>

\* ------------------------------------------------------------- output
\* mutant of Exists: the directory is never looked at
ExistsNever(fs, path) == FALSE

\* os.path.exists(filepath)
Exists(fs, path) == path \in DOMAIN fs

\* mutant of ensure_unique_filename: "if" in place of "while", one suffix tried
ensure_unique_filename_once(t) ==
  /\ pc[t] = "probe"
  /\ output_file' = [output_file EXCEPT ![t] =
                       IF Exists(files, @) THEN counter[t] ELSE @]
  /\ counter' = [counter EXCEPT ![t] = IF Exists(files, output_file[t]) THEN @ + 1 ELSE @]
  /\ pc' = [pc EXCEPT ![t] = "write"]
  /\ UNCHANGED <<pages, doc, files, clicks, camelot_df, plumber_df, tabula_df,
                 error, invoked, resolved, returned, seen, replaced>>

\* lines 76-78, one turn of the loop: each os.path.exists is a separate look
\* at the directory, and other threads run between two looks
ensure_unique_filename(t) ==
  /\ pc[t] = "probe"
  /\ IF Exists(files, output_file[t])
     THEN /\ output_file' = [output_file EXCEPT ![t] = counter[t]]
          /\ counter' = [counter EXCEPT ![t] = @ + 1]
          /\ UNCHANGED pc
     ELSE /\ pc' = [pc EXCEPT ![t] = "write"]
          /\ UNCHANGED <<output_file, counter>>
  /\ UNCHANGED <<pages, doc, files, clicks, camelot_df, plumber_df, tabula_df,
                 error, invoked, resolved, returned, seen, replaced>>

\* mutant of Sheets: the "if not df.empty" tests are missing
SheetsAlways(c, p, tb) ==
  <<[name |-> "Camelot", df |-> c], [name |-> "PDFPlumber", df |-> p],
    [name |-> "Tabula", df |-> tb]>>

\* lines 106-111: the to_excel calls, in order
Sheets(c, p, tb) ==
  (IF ~Empty(c) THEN <<[name |-> "Camelot", df |-> c]>> ELSE <<>>)
    \o (IF ~Empty(p) THEN <<[name |-> "PDFPlumber", df |-> p]>> ELSE <<>>)
    \o (IF ~Empty(tb) THEN <<[name |-> "Tabula", df |-> tb]>> ELSE <<>>)

\* lines 105-113: pd.ExcelWriter creates the file at output_file, or
\* truncates the one that is there
write_workbook(t) ==
  /\ pc[t] = "write"
  /\ replaced' = [replaced EXCEPT ![t] =
                    IF output_file[t] \in DOMAIN files
                    THEN files[output_file[t]].writer ELSE -1]
  /\ files' = [k \in DOMAIN files \cup {output_file[t]} |->
                 IF k = output_file[t]
                 THEN [writer |-> t,
                       sheets |-> Sheets(camelot_df[t], plumber_df[t], tabula_df[t])]
                 ELSE files[k]]
  /\ pc' = [pc EXCEPT ![t] = "done"]
  /\ UNCHANGED <<pages, doc, clicks, camelot_df, plumber_df, tabula_df,
                 output_file, counter, error, invoked, resolved, returned, seen>>

\* lines 94-113, one step of the thread that runs it
run_extraction(t) ==
  \/ extract_tables_camelot(t)
  \/ extract_tables_pdfplumber(t)
  \/ extract_tables_tabula(t)
  \/ ensure_unique_filename(t)
  \/ write_workbook(t)

Next == \E t \in Threads : start_extraction(t) \/ run_extraction(t)

\* one run at a time: the button is pressed again only after the last run ended
Quiet == \A u \in Threads : pc[u] \in {"idle", "done", "failed"}

NextSeq == \E t \in Threads : (Quiet /\ start_extraction(t)) \/ run_extraction(t)

\* ------------------------------------------------------------ inputs
SpecChars == {"0", "1", "2", ",", "-", " ", "x"}

\* the spec's own examples, the spellings of "all", and a spec past the 1000 limit
SpecExamples ==
  { <<"1", ",", "2", ",", "5", "-", "7">>, <<"1", "-", "3">>,
    <<"1", "-", "3", ",", "2">>, <<"0", "-", "2">>, <<"1", "0", "0", "1">>,
    ALL, <<"A", "L", "L">>, <<"A", "l", "l">>, <<" ", "a", "l", "l">> }

PageSpecs == StrUpTo(SpecChars, MaxSpecLen) \cup SpecExamples

CellChars == {"$", " ", TAB, "(", ")", "1", ",", ".", "N"}

CellExamples ==
  { <<"$", "1", ",", "2", "3", "4", ".", "5", "6">>,
    <<"$", " ", "(", "1", ",", "2", "3", "4", ".", "5", "6", ")">>,
    <<"N", "/", "A">> }

Cells ==
  {Txt(s) : s \in StrUpTo(CellChars, MaxCellLen) \cup CellExamples} \cup {NaN, Num}

TextChars == {"a", "b", NL}

PageTexts == StrUpTo(TextChars, MaxTextLen)

\* a table of the grid and stream engines: a negative amount, a NaN, an all-NaN row
Table1 == << <<Txt(<<"$", "(", "1", ")">>), NaN>>, <<NaN, NaN>>, <<Num, Txt(<<"N">>)>> >>
NoRows == <<>>
NaNRows == << <<NaN, NaN>> >>

\* a document whose page i reads "p<i>", with the given backend results
PlainDoc(n, c, tb) ==
  [texts |-> [i \in 1..n |-> <<"p">> \o Str(i)], camelot |-> c, tabula |-> tb]

PreExisting(S) == [k \in S |-> [writer |-> 0, sheets |-> <<>>]]

InitThreads ==
  /\ pc = [t \in Threads |-> "idle"]
  /\ camelot_df = [t \in Threads |-> <<>>]
  /\ plumber_df = [t \in Threads |-> <<>>]
  /\ tabula_df = [t \in Threads |-> <<>>]
  /\ output_file = [t \in Threads |-> Candidate]
  /\ counter = [t \in Threads |-> 1]
  /\ error = [t \in Threads |-> "none"]
  /\ invoked = [t \in Threads |-> <<>>]
  /\ resolved = [t \in Threads |-> [camelot |-> <<>>, plumber |-> <<>>]]
  /\ returned = [t \in Threads |-> NoFrames]
  /\ seen = [t \in Threads |-> {}]
  /\ replaced = [t \in Threads |-> -1]

\* the runs of one form and file, pressed up to MaxRuns times, in a directory
\* that may already hold some of X.xlsx, X_1.xlsx, ...
Init ==
  /\ pages \in {ALL, <<"2">>}
  /\ doc \in {[texts |-> tx, camelot |-> c, tabula |-> tb] :
                tx \in {<<<<>>, <<>>>>, <<<<"a">>, <<"b", NL, "c">>>>},
                c \in {<<>>, <<NoRows, Table1>>},
                tb \in {<<NaNRows>>, <<Table1>>}}
  /\ files \in {PreExisting(S) : S \in SUBSET (0..(MaxPre - 1))}
  /\ clicks = MaxRuns
  /\ InitThreads

Spec == Init /\ [][Next]_vars

SpecSeq == Init /\ [][NextSeq]_vars

\* one run for every page spec and page count
InitResolve ==
  /\ pages \in PageSpecs
  /\ doc \in {PlainDoc(n, <<Table1>>, <<Table1>>) : n \in (0..MaxPages) \cup {10}}
  /\ files = PreExisting({})
  /\ clicks = 1
  /\ InitThreads

SpecResolve == InitResolve /\ [][Next]_vars

\* one run for every cell the stream engine may return
InitClean ==
  /\ pages = ALL
  /\ doc \in {PlainDoc(1, << << <<c>> >> >>, <<>>) : c \in Cells}
  /\ files = PreExisting({})
  /\ clicks = 1
  /\ InitThreads

SpecClean == InitClean /\ [][Next]_vars

\* one run for every text of a two-page document
InitText ==
  /\ pages \in {ALL, <<"1", "-", "2">>, <<"2">>}
  /\ doc \in {[texts |-> <<a, b>>, camelot |-> <<>>, tabula |-> <<>>] :
                a \in PageTexts, b \in PageTexts}
  /\ files = PreExisting({})
  /\ clicks = 1
  /\ InitThreads

SpecText == InitText /\ [][Next]_vars

\* ------------------------------------------------------------ claims
\* a page spec as section 4.1 describes it: comma-separated tokens, each an
\* integer or an integer-hyphen-integer pair
WellFormedToken(tok) ==
  \/ IntOk(tok)
  \/ \E k \in 1..Len(tok) :
       /\ tok[k] = "-"
       /\ IntOk(SubSeq(tok, 1, k - 1))
       /\ IntOk(SubSeq(tok, k + 1, Len(tok)))

WellFormedSpec(s) ==
  LET toks == Split(s, ",") IN \A i \in 1..Len(toks) : WellFormedToken(toks[i])

\* the thread's call of parse_page_numbers in extract_tables_camelot returned
CamelotParsed(t) == pc[t] \notin {"idle", "camelot"} /\ error[t] # "ParseError"

\* the thread's call of parse_page_numbers in extract_tables_pdfplumber returned
PlumberParsed(t) ==
  pc[t] \in {"tabula", "probe", "write", "done"} \/ error[t] = "IndexError"

\* C1: every index an engine obtains from the resolver lies in [0, pageCount)
C1_IndicesWithinDocument ==
  \A t \in Threads :
    \A i \in Elems(resolved[t].camelot) \cup Elems(resolved[t].plumber) :
      0 <= i /\ i < pageCount

\* the indices section 4.1 gives a well-formed spec, below the page count n
ExpectedIndices(s, n) ==
  LET toks == Split(s, ",")
  IN {i \in -1..(n - 1) :
        \E j \in 1..Len(toks) :
          \/ IntOk(toks[j]) /\ i = IntVal(toks[j]) - 1
          \/ \E k \in 1..Len(toks[j]) :
               /\ toks[j][k] = "-"
               /\ IntOk(SubSeq(toks[j], 1, k - 1))
               /\ IntOk(SubSeq(toks[j], k + 1, Len(toks[j])))
               /\ IntVal(SubSeq(toks[j], 1, k - 1)) - 1 <= i
               /\ i <= IntVal(SubSeq(toks[j], k + 1, Len(toks[j]))) - 1}

\* C2: for a well-formed page spec parse_page_numbers raises nothing and returns,
\* as a set, the union of {n-1} for single tokens and {a-1..b-1} for pairs,
\* restricted to the indices below the max_pages it was given
C2_ResolvedSetIsUnionOfTokens ==
  \A t \in Threads :
    WellFormedSpec(pages) =>
      /\ pc[t] \notin {"idle", "camelot"} => error[t] # "ParseError"
      /\ CamelotParsed(t) =>
           Elems(resolved[t].camelot) = ExpectedIndices(pages, CamelotMaxPages)
      /\ PlumberParsed(t) =>
           Elems(resolved[t].plumber) = ExpectedIndices(pages, pageCount)

\* C2 witness: "1,2,5-7" on a ten-page document resolved to {0,1,4,5,6}
C2_Witness ==
  \E t \in Threads :
    /\ pages = <<"1", ",", "2", ",", "5", "-", "7">>
    /\ pageCount = 10
    /\ pc[t] = "done"
    /\ Elems(resolved[t].plumber) = {0, 1, 4, 5, 6}

WrittenBy(t) == {k \in DOMAIN files : files[k].writer = t}

\* C3: with a page spec that is not "all" and has a malformed token, the run
\* ends with the parse error, no backend invoked and no file created
C3_MalformedSpecFailsBeforeExtraction ==
  \A t \in Threads :
    (Lower(pages) # ALL /\ ~WellFormedSpec(pages) /\ pc[t] \notin {"idle", "camelot"}) =>
      /\ pc[t] = "failed"
      /\ error[t] = "ParseError"
      /\ invoked[t] = <<>>
      /\ WrittenBy(t) = {}

\* C3 witness: "1,x" ended a run with the parse error
C3_Witness ==
  \E t \in Threads :
    /\ pages = <<"1", ",", "x">>
    /\ pc[t] = "failed"
    /\ error[t] = "ParseError"

RECURSIVE RemoveAll(_, _)
RemoveAll(s, cs) ==
  IF s = <<>> THEN <<>>
  ELSE IF Head(s) \in cs THEN RemoveAll(Tail(s), cs)
  ELSE <<Head(s)>> \o RemoveAll(Tail(s), cs)

\* section 4.3's normalize
Normalize(cell) ==
  IF ~cell.isStr THEN cell
  ELSE LET c == Strip(Remove(cell.v, "$"))
       IN IF MatchesParenNumber(c)
          THEN Txt(<<"-">> \o RemoveAll(SubSeq(c, 2, Len(c) - 1),
                                        {",", "(", ")", " ", TAB, NL}))
          ELSE Txt(c)

\* C4: clean_cell leaves a non-text cell alone, turns a parenthesized number
\* into '-' and its inner characters without commas, parentheses and
\* whitespace, and otherwise returns the '$'-stripped, trimmed text
C4_CleanCellAsSpecified ==
  \A t \in Threads :
    pc[t] \in {"plumber", "tabula", "probe", "write", "done"} =>
      camelot_df[t] =
        [r \in 1..Len(returned[t].camelot) |->
           [k \in 1..Len(returned[t].camelot[r]) |->
              Normalize(returned[t].camelot[r][k])]]

\* the path ensure_unique_filename is to choose when the files S exist
FirstFree(S) ==
  IF Candidate \notin S THEN Candidate
  ELSE CHOOSE k \in 1..(Cardinality(S) + 1) :
         k \notin S /\ \A j \in 1..(k - 1) : j \in S

\* C5: with one run at a time, the path chosen is X if unused and otherwise
\* X_k for the least k >= 1 that is unused, the write replaces no file, and
\* the probe ends within one look per existing file plus one
C5_SequentialRunsNeverOverwrite ==
  \A t \in Threads :
    /\ pc[t] \in {"write", "done"} => output_file[t] = FirstFree(seen[t])
    /\ pc[t] = "write" => output_file[t] \notin DOMAIN files
    /\ pc[t] = "done" => replaced[t] = -1
    /\ pc[t] \in {"probe", "write", "done"} => counter[t] <= Cardinality(seen[t]) + 1

\* C5 witness: X.xlsx and X_1.xlsx existed and the run wrote X_2.xlsx
C5_Witness ==
  \E t \in Threads :
    /\ pc[t] = "done"
    /\ {0, 1} \subseteq seen[t]
    /\ output_file[t] = 2
    /\ files[2].writer = t

SheetNames(wb) == {wb.sheets[i].name : i \in 1..Len(wb.sheets)}

C7_EngineFailureAbortsWithoutOutput ==
  \A t \in Threads :
    /\ error[t] # "none" =>
         pc[t] = "failed" /\ WrittenBy(t) = {} /\ replaced[t] = -1
    /\ pc[t] \in {"probe", "write", "done"} =>
         /\ error[t] = "none"
         /\ [i \in 1..Len(invoked[t]) |-> invoked[t][i].backend]
              = <<"camelot", "pdfplumber", "tabula">>
    /\ WrittenBy(t) # {} => pc[t] = "done"

\* C7 witness: tabula failed after the other two engines had returned rows
C7_Witness ==
  \E t \in Threads :
    /\ pc[t] = "failed"
    /\ error[t] = "ExtractionError"
    /\ Len(invoked[t]) = 3
    /\ ~Empty(camelot_df[t])
    /\ ~Empty(plumber_df[t])
    /\ WrittenBy(t) = {}

NoDuplicates(s) == \A i, j \in 1..Len(s) : i # j => s[i] # s[j]

\* C8: the indices resolved for the plain-text engine hold no page twice, so
\* no page's lines are twice in that engine's result
\* (read for specs that resolve to no negative index: a negative index is
\* C1's concern, and it too makes one page selected twice)
C8_ResolvedPagesAreDistinct ==
  \A t \in Threads :
    (\A i \in 1..Len(resolved[t].plumber) : resolved[t].plumber[i] >= 0) =>
      /\ NoDuplicates(resolved[t].plumber)
      /\ NoDuplicates(returned[t].plumber)

\* C9: a write replaces a file only when that file is the workbook of another
\* run that chose the same path, a path neither run saw when its probe began
C9_OverwriteOnlyBetweenInterleavedRuns ==
  \A t \in Threads :
    replaced[t] # -1 =>
      /\ replaced[t] \in Threads \ {t}
      /\ output_file[replaced[t]] = output_file[t]
      /\ output_file[t] \notin seen[t]
      /\ output_file[t] \notin seen[replaced[t]]

\* C9 witness: two runs chose the same path and the second write replaced
\* the first run's workbook
C9_Witness ==
  \E t, u \in Threads :
    /\ t # u
    /\ pc[t] = "done" /\ pc[u] = "done"
    /\ output_file[t] = output_file[u]
    /\ replaced[t] = u
    /\ files[output_file[t]].writer = t

RECURSIVE NonEmptyLines(_)
NonEmptyLines(ls) ==
  IF ls = <<>> THEN <<>>
  ELSE IF Head(ls) = <<>> THEN NonEmptyLines(Tail(ls))
  ELSE <<Head(ls)>> \o NonEmptyLines(Tail(ls))

\* the pages the plain-text engine selected, in its order
SelectedPages(t) ==
  IF Lower(pages) = ALL THEN Range(0, pageCount)
  ELSE [i \in 1..Len(resolved[t].plumber) |-> PageAt(resolved[t].plumber[i], pageCount)]

\* C10: the plain-text engine returns one single-column row per non-empty
\* line of the selected pages' text, in page order then line order
C10_OneRowPerNonEmptyLine ==
  \A t \in Threads :
    pc[t] \in {"tabula", "probe", "write", "done"} =>
      returned[t].plumber =
        LET sel == SelectedPages(t)
            lines == Flatten([i \in 1..Len(sel) |->
                                NonEmptyLines(Split(doc.texts[sel[i] + 1], NL))])
        IN [i \in 1..Len(lines) |-> <<Txt(lines[i])>>]

=============================================================================
